---- MODULE Spec2Model ----
(***************************************************************************)
(* Exposure Notification key schedule (exponot/exponot.py): the interval   *)
(* clock, the three process-wide key caches (TEK, RPIK, AEMK), their lazy  *)
(* population and pruning, and the rolling proximity identifier.           *)
(*                                                                         *)
(* Byte strings are modelled as tuples.  The outputs of os.urandom, of     *)
(* hkdf_derive and of AES are symbolic terms: a tuple that records the     *)
(* primitive and its inputs, so that two outputs are equal exactly when    *)
(* the primitive and all its inputs are equal.                             *)
(***************************************************************************)
EXTENDS Integers, Sequences, FiniteSets, TLC

\* ------------------------------------------------------------ constants
SECONDS_PER_INTERVAL == 600
TEK_ROLLING_PERIOD == 144
TEK_LIFETIME == 14
BYTES_RPIK_INFO == "EN-RPIK"
BYTES_AEMK_INFO == "EN-AEMK"
\* "EN-RPI" in UTF-8
BYTES_RPI == <<69, 78, 45, 82, 80, 73>>
BYTES_MID_PAD == <<0, 0, 0, 0, 0, 0>>

\* --------------------------------------------------------------- bounds
\* The clock visits key day 0 and the key days TEK_LIFETIME .. MaxDay.
MaxDay == 15
\* A run makes at most MaxCalls public calls.
MaxCalls == 3

SecondsPerDay == SECONDS_PER_INTERVAL * TEK_ROLLING_PERIOD
Days == {0} \cup (TEK_LIFETIME .. MaxDay)
\* Clock readings: the first second of every visited key day ...
DayStarts == {d * SecondsPerDay : d \in Days}
\* ... and the first second of the second interval of key day 0.
Times == DayStarts \cup {SECONDS_PER_INTERVAL}
\* The outcomes of os.urandom(16).  Keys are only compared for equality,
\* so two outcomes show every case.
RandomKeys == {<<"urandom", 1>>, <<"urandom", 2>>}
\* The metadata byte strings callers pass.
Metadata == {<<>>, <<64>>}

VARIABLES
    now,            \* epoch seconds at the last clock reading
    utcoffset,      \* UTC offset of the host's local time (local = UTC + offset)
    _temporary_exposure_keys,
    _rolling_proximity_id_keys,
    _associated_enc_metadata_keys,
    op,             \* the public operation that completed last
    ret,            \* its return value
    hit,            \* whether the cache it looked in already held the key day
    prev,           \* the clock reading of the call before it
    calls,          \* number of completed public calls
    issued,         \* history: <<function, key day or interval, value returned>>
    runs,           \* history: <<function, key day>> -> times generated/derived
    pc,             \* concurrent callers: the line each is about to execute
    frame           \* concurrent callers: the local variables of each

vars == <<now, utcoffset, _temporary_exposure_keys, _rolling_proximity_id_keys,
          _associated_enc_metadata_keys, op, ret, hit, prev, calls, issued, runs,
          pc, frame>>

NoValue == <<>>
EmptyDict == [k \in {} |-> NoValue]

\* ----------------------------------------------------- interval clock
\* datetime.utcnow() is a naive datetime holding the UTC wall clock;
\* naive.timestamp() reads it as local time, so it yields epoch - utcoffset.
_interval_number_impl(time_at_key_gen) ==
    LET timestamp == time_at_key_gen - utcoffset
    IN  timestamp \div SECONDS_PER_INTERVAL

interval_number(clock) == _interval_number_impl(clock)

KeyDay(curr_interval_num) == curr_interval_num \div TEK_ROLLING_PERIOD

\* ------------------------------------------------------- dict helpers
SetItem(dict, key, value) ==
    [k \in DOMAIN dict \cup {key} |-> IF k = key THEN value ELSE dict[k]]

\* Mutant: the age threshold made exclusive.
Retained_exclusive(dict, curr_interval_day) ==
    [k \in {prev_key \in DOMAIN dict :
               curr_interval_day - prev_key < TEK_LIFETIME} |-> dict[k]]

\* The comprehension that keeps the keys no older than TEK_LIFETIME days.
Retained(dict, curr_interval_day) ==
    [k \in {prev_key \in DOMAIN dict :
               curr_interval_day - prev_key <= TEK_LIFETIME} |-> dict[k]]

\* ------------------------------------------------- primitives
\* hkdf_derive (exponot/utils.py): HKDF is deterministic in all its inputs.
hkdf_derive(input_key, salt, info, length) ==
    <<"hkdf", input_key, salt, info, length>>

\* AES.new(key, AES.MODE_ECB).encrypt(block): a permutation of the 16-byte
\* blocks for every key.
AES_ECB_encrypt(key, block) == <<"aes_ecb", key, block>>

Byte(n, k) == (n \div (256 ^ k)) % 256

\* struct.error: what struct.pack raises outside its range.
StructError == <<"struct.error">>
\* os.urandom raises OSError when no source of randomness is found.
OSError == <<"OSError">>

\* Mutant: struct.pack('>I', n), most significant byte first.
struct_pack_I_big_endian(n) ==
    IF n >= 0 /\ n \div 65536 < 65536
    THEN <<Byte(n, 3), Byte(n, 2), Byte(n, 1), Byte(n, 0)>>
    ELSE StructError

\* struct.pack("<I", n): 4 bytes, least significant first; struct.error
\* outside 0 .. 2^32 - 1.
struct_pack_I(n) ==
    IF n >= 0 /\ n \div 65536 < 65536
    THEN <<Byte(n, 0), Byte(n, 1), Byte(n, 2), Byte(n, 3)>>
    ELSE StructError

\* ------------------------------------------- temporary_exposure_key
\* Mutant: the presence check dropped, a key is drawn on every call.
temporary_exposure_key_always_mints(teks, clock, rnd) ==
    LET curr_interval_day == KeyDay(interval_number(clock))
        temp_dict == Retained(SetItem(teks, curr_interval_day, rnd),
                              curr_interval_day)
    IN  [keys |-> temp_dict, ret |-> temp_dict[curr_interval_day],
         day |-> curr_interval_day, minted |-> TRUE, raised |-> FALSE]

\* One call of temporary_exposure_key() that reads `clock`, with `rnd` the
\* outcome of os.urandom(16) should it be drawn: a key, or OSError when the
\* random source fails (the exception leaves line 65 before the store).
\* keys: the global dict after the call; raised: the call raised `ret`.
temporary_exposure_key(teks, clock, rnd) ==
    LET curr_interval_num == interval_number(clock)
        curr_interval_day == KeyDay(curr_interval_num)
    IN  IF curr_interval_day \notin DOMAIN teks
        THEN IF rnd = OSError
             THEN [keys |-> teks, ret |-> OSError,
                   day |-> curr_interval_day, minted |-> FALSE,
                   raised |-> TRUE]
             ELSE LET inserted == SetItem(teks, curr_interval_day, rnd)
                      temp_dict == Retained(inserted, curr_interval_day)
                  IN  [keys |-> temp_dict,
                       ret |-> temp_dict[curr_interval_day],
                       day |-> curr_interval_day, minted |-> TRUE,
                       raised |-> FALSE]
        ELSE [keys |-> teks, ret |-> teks[curr_interval_day],
              day |-> curr_interval_day, minted |-> FALSE, raised |-> FALSE]

\* ------------------------------------------------ _rolling_key_deriv
\* Mutant: the derived key is stored in a copy, never in the global dict.
_rolling_key_deriv_no_store(container, info, teks, clock, tek_clock, rnd) ==
    LET curr_interval_day == KeyDay(interval_number(clock))
    IN  IF curr_interval_day \notin DOMAIN container
        THEN LET tek == temporary_exposure_key(teks, tek_clock, rnd)
             IN  [container |-> container, teks |-> tek.keys,
                  ret |-> hkdf_derive(tek.ret, <<>>, info, 16),
                  day |-> curr_interval_day, derived |-> TRUE, tek |-> <<tek>>,
                  raised |-> FALSE]
        ELSE [container |-> container, teks |-> teks,
              ret |-> container[curr_interval_day],
              day |-> curr_interval_day, derived |-> FALSE, tek |-> <<>>,
              raised |-> FALSE]

\* One call of _rolling_key_deriv(container, info): `clock` is its own
\* clock reading, `tek_clock` the one made by temporary_exposure_key().
\* The insert mutates the dict object the caller passed (the global one);
\* `container = temp_dict` rebinds the local name only.
\* container: the global dict after the call; tek: the nested call.
\* An exception of temporary_exposure_key() leaves lines 84-90 before the
\* insert.
_rolling_key_deriv(container, info, teks, clock, tek_clock, rnd) ==
    LET curr_interval_num == interval_number(clock)
        curr_interval_day == KeyDay(curr_interval_num)
    IN  IF curr_interval_day \notin DOMAIN container
        THEN LET tek == temporary_exposure_key(teks, tek_clock, rnd)
                 curr_key == hkdf_derive(tek.ret, <<>>, info, 16)
                 inserted == SetItem(container, curr_interval_day, curr_key)
                 temp_dict == Retained(inserted, curr_interval_day)
             IN  IF tek.raised
                 THEN [container |-> container, teks |-> tek.keys,
                       ret |-> tek.ret, day |-> curr_interval_day,
                       derived |-> FALSE, tek |-> <<>>, raised |-> TRUE]
                 ELSE [container |-> inserted, teks |-> tek.keys,
                       ret |-> temp_dict[curr_interval_day],
                       day |-> curr_interval_day, derived |-> TRUE,
                       tek |-> <<tek>>, raised |-> FALSE]
        ELSE [container |-> container, teks |-> teks,
              ret |-> container[curr_interval_day],
              day |-> curr_interval_day, derived |-> FALSE, tek |-> <<>>,
              raised |-> FALSE]

rolling_proximity_identifier_key(rpiks, teks, clock, tek_clock, rnd) ==
    _rolling_key_deriv(rpiks, BYTES_RPIK_INFO, teks, clock, tek_clock, rnd)

associated_encrypted_metadata_key(aemks, teks, clock, tek_clock, rnd) ==
    _rolling_key_deriv(aemks, BYTES_AEMK_INFO, teks, clock, tek_clock, rnd)

\* -------------------------------------- rolling_proximity_identifier
\* Mutant: the key day is encoded in place of the interval number.
padded_data_of_key_day(curr_interval_num) ==
    BYTES_RPI \o BYTES_MID_PAD \o struct_pack_I(KeyDay(curr_interval_num))

padded_data(curr_interval_num) ==
    LET packed == struct_pack_I(curr_interval_num)
    IN  IF packed = StructError THEN StructError
        ELSE BYTES_RPI \o BYTES_MID_PAD \o packed

\* `clock` is read first, then rolling_proximity_identifier_key() runs
\* (reading key_clock and tek_clock), then the block is packed and encrypted.
rolling_proximity_identifier(rpiks, teks, clock, key_clock, tek_clock, rnd) ==
    LET curr_interval_num == interval_number(clock)
        key == rolling_proximity_identifier_key(rpiks, teks, key_clock,
                                                tek_clock, rnd)
        block == padded_data(curr_interval_num)
    IN  IF key.raised
        THEN [key |-> key, interval |-> curr_interval_num,
              ret |-> key.ret, raised |-> TRUE]
        ELSE [key |-> key, interval |-> curr_interval_num,
              ret |-> IF block = StructError THEN StructError
                      ELSE AES_ECB_encrypt(key.ret, block),
              raised |-> block = StructError]

\* ------------------------------------- associated_encrypted_metadata
\* Mutant: a block mode in place of CTR, the data padded (PKCS#7) to a
\* whole number of 16-byte blocks.
AES_CTR_encrypt_padded(key, initial_value, data) ==
    LET pad == 16 - (Len(data) % 16)
    IN  <<"aes_ctr", key, initial_value, data \o [i \in 1 .. pad |-> pad]>>

\* int(hexlify(curr_rpi), 16): the bytes read as a big-endian integer.
int_of_hexlify(bytes) == <<"int_be", bytes>>

\* AES.new(key, AES.MODE_CTR, counter=Counter.new(128, initial_value))
\* .encrypt(data): the data XOR a key stream, byte for byte.
AES_CTR_encrypt(key, initial_value, data) ==
    <<"aes_ctr", key, initial_value, data>>

\* len() of a byte string: os.urandom(16) gives 16 bytes, hkdf_derive the
\* length asked for, AES in ECB and CTR mode as many bytes as it is given
\* (neither mode pads or appends a tag).
ByteLength(bytes) ==
    CASE bytes[1] = "urandom" -> 16
      [] bytes[1] = "hkdf" -> bytes[5]
      [] bytes[1] = "aes_ecb" -> Len(bytes[3])
      [] bytes[1] = "aes_ctr" -> Len(bytes[4])

\* rolling_proximity_identifier() when it is never reached.
NotRun(rpiks, teks) ==
    [key |-> [container |-> rpiks, teks |-> teks, ret |-> NoValue, day |-> 0,
              derived |-> FALSE, tek |-> <<>>, raised |-> TRUE],
     interval |-> 0, ret |-> NoValue, raised |-> TRUE]

\* associated_encrypted_metadata_key() runs first (reading aemk_clock and
\* tek_clock1, drawing rnd1), then rolling_proximity_identifier() (reading
\* clock, key_clock and tek_clock2, drawing rnd2), unless the former raised.
associated_encrypted_metadata(metadata, aemks, rpiks, teks, aemk_clock, tek_clock1, rnd1, clock, key_clock, tek_clock2, rnd2) ==
    LET curr_aemk == associated_encrypted_metadata_key(
                         aemks, teks, aemk_clock, tek_clock1, rnd1)
        curr_rpi == rolling_proximity_identifier(
                        rpiks, curr_aemk.teks, clock, key_clock,
                        tek_clock2, rnd2)
        curr_rpi_int == int_of_hexlify(curr_rpi.ret)
    IN  IF curr_aemk.raised
        THEN [aemk |-> curr_aemk, rpi |-> NotRun(rpiks, curr_aemk.teks),
              ret |-> curr_aemk.ret, raised |-> TRUE]
        ELSE IF curr_rpi.raised
        THEN [aemk |-> curr_aemk, rpi |-> curr_rpi,
              ret |-> curr_rpi.ret, raised |-> TRUE]
        ELSE [aemk |-> curr_aemk, rpi |-> curr_rpi,
              ret |-> AES_CTR_encrypt(curr_aemk.ret, curr_rpi_int, metadata),
              raised |-> FALSE]

\* ----------------------------------------------------------- history
Count(k) == IF k \in DOMAIN runs THEN runs[k] ELSE 0
Ran(r, k) == SetItem(r, k, (IF k \in DOMAIN r THEN r[k] ELSE 0) + 1)

\* What a call of temporary_exposure_key() adds to the history.
TekIssued(tek) == IF tek.raised THEN {} ELSE {<<"tek", tek.day, tek.ret>>}
TekRuns(r, tek) == IF tek.minted THEN Ran(r, <<"tek", tek.day>>) ELSE r

\* What a call of _rolling_key_deriv() for cache `fn` adds to the history.
DerivIssued(fn, d) ==
    IF d.raised THEN {}
    ELSE {<<fn, d.day, d.ret>>} \cup
         (IF d.derived THEN TekIssued(d.tek[1]) ELSE {})
\* What a call of rolling_proximity_identifier() adds to the history.
RpiIssued(r) ==
    DerivIssued("rpik", r.key) \cup
    (IF r.raised THEN {} ELSE {<<"rpi", r.interval, r.ret>>})
DerivRuns(r, fn, d) ==
    IF d.derived THEN Ran(TekRuns(r, d.tek[1]), <<fn, d.day>>) ELSE r
\* What a call of associated_encrypted_metadata(metadata) adds to the
\* history: its nested calls, and the metadata with the bytes returned.
AemIssued(metadata, r) ==
    DerivIssued("aemk", r.aemk) \cup RpiIssued(r.rpi) \cup
    (IF r.raised THEN {} ELSE {<<"aem", metadata, r.ret>>})

Today == KeyDay(interval_number(now))

\* ------------------------------------------------------------- state
\* Callers that may run temporary_exposure_key() concurrently.
Threads == {1, 2}
NoFrame == [curr_interval_day |-> 0, temp_dict |-> EmptyDict]

Init ==
    /\ now = 0
    /\ prev = 0
    /\ utcoffset = 0
    /\ _temporary_exposure_keys = EmptyDict
    /\ _rolling_proximity_id_keys = EmptyDict
    /\ _associated_enc_metadata_keys = EmptyDict
    /\ op = "none"
    /\ ret = NoValue
    /\ hit = FALSE
    /\ calls = 0
    /\ issued = {}
    /\ runs = EmptyDict
    /\ pc = [th \in Threads |-> "idle"]
    /\ frame = [th \in Threads |-> NoFrame]

Returns(name, t, value, cached) ==
    /\ op' = name
    /\ ret' = value
    /\ hit' = cached
    /\ prev' = now
    /\ now' = t
    /\ calls' = calls + 1
    /\ UNCHANGED <<utcoffset, pc, frame>>

\* A public call of temporary_exposure_key() at a clock reading of T,
\* with os.urandom yielding an outcome of R.
\* (The result of the call is bound with \E so that it is computed once.)
CallTemporaryExposureKey(T, R) ==
    /\ calls < MaxCalls
    /\ \E t \in T, rnd \in R :
        \E tek \in {temporary_exposure_key(_temporary_exposure_keys, t, rnd)} :
            /\ _temporary_exposure_keys' = tek.keys
            /\ UNCHANGED <<_rolling_proximity_id_keys,
                           _associated_enc_metadata_keys>>
            /\ issued' = issued \cup TekIssued(tek)
            /\ runs' = TekRuns(runs, tek)
            /\ Returns("tek", t, tek.ret, ~tek.minted /\ ~tek.raised)

\* A public call of rolling_proximity_identifier_key().
CallRollingProximityIdentifierKey(T, R) ==
    /\ calls < MaxCalls
    /\ \E t \in T, rnd \in R :
        \E d \in {rolling_proximity_identifier_key(
                     _rolling_proximity_id_keys, _temporary_exposure_keys,
                     t, t, rnd)} :
            /\ _rolling_proximity_id_keys' = d.container
            /\ _temporary_exposure_keys' = d.teks
            /\ UNCHANGED _associated_enc_metadata_keys
            /\ issued' = issued \cup DerivIssued("rpik", d)
            /\ runs' = DerivRuns(runs, "rpik", d)
            /\ Returns("rpik", t, d.ret, ~d.derived /\ ~d.raised)

\* A public call of associated_encrypted_metadata_key().
CallAssociatedEncryptedMetadataKey(T, R) ==
    /\ calls < MaxCalls
    /\ \E t \in T, rnd \in R :
        \E d \in {associated_encrypted_metadata_key(
                     _associated_enc_metadata_keys, _temporary_exposure_keys,
                     t, t, rnd)} :
            /\ _associated_enc_metadata_keys' = d.container
            /\ _temporary_exposure_keys' = d.teks
            /\ UNCHANGED _rolling_proximity_id_keys
            /\ issued' = issued \cup DerivIssued("aemk", d)
            /\ runs' = DerivRuns(runs, "aemk", d)
            /\ Returns("aemk", t, d.ret, ~d.derived /\ ~d.raised)

\* A public call of rolling_proximity_identifier().
CallRollingProximityIdentifier(T, R) ==
    /\ calls < MaxCalls
    /\ \E t \in T, rnd \in R :
        \E r \in {rolling_proximity_identifier(
                     _rolling_proximity_id_keys, _temporary_exposure_keys,
                     t, t, t, rnd)} :
            /\ _rolling_proximity_id_keys' = r.key.container
            /\ _temporary_exposure_keys' = r.key.teks
            /\ UNCHANGED _associated_enc_metadata_keys
            /\ issued' = issued \cup RpiIssued(r)
            /\ runs' = DerivRuns(runs, "rpik", r.key)
            /\ Returns("rpi", t, r.ret, ~r.key.derived /\ ~r.raised)

\* A public call of associated_encrypted_metadata(metadata).
CallAssociatedEncryptedMetadata(T, R, M) ==
    /\ calls < MaxCalls
    /\ \E t \in T, rnd1 \in R, rnd2 \in R, metadata \in M :
        \E r \in {associated_encrypted_metadata(
                     metadata, _associated_enc_metadata_keys,
                     _rolling_proximity_id_keys, _temporary_exposure_keys,
                     t, t, rnd1, t, t, t, rnd2)} :
            /\ _associated_enc_metadata_keys' = r.aemk.container
            /\ _rolling_proximity_id_keys' = r.rpi.key.container
            /\ _temporary_exposure_keys' = r.rpi.key.teks
            /\ issued' = issued \cup AemIssued(metadata, r)
            /\ runs' = DerivRuns(DerivRuns(runs, "aemk", r.aemk),
                                 "rpik", r.rpi.key)
            /\ Returns("aem", t, r.ret, ~r.aemk.derived /\ ~r.raised)

\* Sequential calls of the three key functions, each at one clock reading;
\* between calls the clock may jump forwards or backwards by whole key days.
Next ==
    \/ CallTemporaryExposureKey(DayStarts, RandomKeys)
    \/ CallRollingProximityIdentifierKey(DayStarts, RandomKeys)
    \/ CallAssociatedEncryptedMetadataKey(DayStarts, RandomKeys)
Spec == Init /\ [][Next]_vars

\* Sequential public calls under a non-decreasing clock.
NotBefore == {t \in Times : t >= now}
NextMono ==
    \/ CallTemporaryExposureKey(NotBefore, RandomKeys)
    \/ CallRollingProximityIdentifierKey(NotBefore, RandomKeys)
    \/ CallAssociatedEncryptedMetadataKey(NotBefore, RandomKeys)
    \/ CallRollingProximityIdentifier(NotBefore, RandomKeys)
    \/ CallAssociatedEncryptedMetadata(NotBefore, RandomKeys, Metadata)
SpecMono == Init /\ [][NextMono]_vars

\* ------------------------------------------- metadata of any length
\* Metadata of 0, 1, 16 and 257 bytes: empty, less than an AES block, one
\* block, more than 16 blocks and not a multiple of the block size.
MetadataOfLength(n) == [i \in 1 .. n |-> i % 256]
MetadataLengths == {0, 1, 16, 257}
LongMetadata == {MetadataOfLength(n) : n \in MetadataLengths}
NextMeta ==
    CallAssociatedEncryptedMetadata(NotBefore, RandomKeys, LongMetadata)
SpecMeta == Init /\ [][NextMeta]_vars

\* ------------------------------------------- packing the interval
\* Lines 128-132 for interval numbers that no clock reading of Times gives:
\* around the byte boundaries, with four different bytes (0x01020304), and
\* 2^31 - 1, the largest integer of the model.
IntervalSamples ==
    {0, 1, 255, 256, 65535, 65536, 16777215, 16777216, 16909060, 2147483647}
PackInterval ==
    /\ calls < MaxCalls
    /\ \E curr_interval_num \in IntervalSamples, rnd \in RandomKeys :
        \E curr_rpik \in {hkdf_derive(rnd, <<>>, BYTES_RPIK_INFO, 16)} :
        \E curr_rpi \in {AES_ECB_encrypt(curr_rpik,
                                         padded_data(curr_interval_num))} :
            /\ issued' = issued \cup {<<"rpi", curr_interval_num, curr_rpi>>}
            /\ Returns("rpi", now, curr_rpi, FALSE)
            /\ UNCHANGED <<_temporary_exposure_keys, _rolling_proximity_id_keys,
                           _associated_enc_metadata_keys, runs>>
NextPack == PackInterval
SpecPack == Init /\ [][NextPack]_vars

\* ------------------------------------------- hosts off UTC
\* UTC offsets of the host's local time zone, in seconds: UTC, UTC-1, UTC-5.
UtcOffsets == {0, 0 - 3600, 0 - 18000}
\* Epoch seconds at the first and at the last second of 10-minute windows.
EpochSeconds == Times \cup {t + SECONDS_PER_INTERVAL - 1 : t \in Times}

InitHost ==
    /\ now = 0
    /\ prev = 0
    /\ utcoffset \in UtcOffsets
    /\ _temporary_exposure_keys = EmptyDict
    /\ _rolling_proximity_id_keys = EmptyDict
    /\ _associated_enc_metadata_keys = EmptyDict
    /\ op = "none"
    /\ ret = NoValue
    /\ hit = FALSE
    /\ calls = 0
    /\ issued = {}
    /\ runs = EmptyDict
    /\ pc = [th \in Threads |-> "idle"]
    /\ frame = [th \in Threads |-> NoFrame]

\* A public call of interval_number() at epoch second t.
CallIntervalNumber(T) ==
    /\ calls < MaxCalls
    /\ \E t \in T :
           /\ Returns("interval", t, interval_number(t), FALSE)
           /\ UNCHANGED <<_temporary_exposure_keys, _rolling_proximity_id_keys,
                          _associated_enc_metadata_keys, issued, runs>>

\* Sequential calls of interval_number() as the epoch time grows, on a host
\* in any of the time zones.
NextHost == CallIntervalNumber({t \in EpochSeconds : t >= now})
SpecHost == InitHost /\ [][NextHost]_vars

\* ------------------------------ the clock advancing inside a call
\* Every function reads datetime.utcnow() for itself (lines 61, 80, 126):
\* a call that nests another one reads the clock more than once, and the
\* clock may have advanced in between.  A reading stands for any instant of
\* its interval; between two reads of one call the clock advances by at
\* most a key day.
Later(c) == {t \in Times : c <= t /\ t <= c + SecondsPerDay}

\* os.urandom(16) yields a key or raises.
Outcomes == RandomKeys \cup {OSError}

\* rolling_proximity_identifier_key(): the clock is read at line 80 and,
\* on a miss, again at line 61.
SlowRollingProximityIdentifierKey(R) ==
    /\ calls < MaxCalls
    /\ \E c1 \in NotBefore, rnd \in R :
        \E c2 \in Later(c1) :
        \E d \in {rolling_proximity_identifier_key(
                     _rolling_proximity_id_keys, _temporary_exposure_keys,
                     c1, c2, rnd)} :
            /\ _rolling_proximity_id_keys' = d.container
            /\ _temporary_exposure_keys' = d.teks
            /\ UNCHANGED _associated_enc_metadata_keys
            /\ issued' = issued \cup DerivIssued("rpik", d)
            /\ runs' = DerivRuns(runs, "rpik", d)
            /\ Returns("rpik", c2, d.ret, ~d.derived /\ ~d.raised)

\* associated_encrypted_metadata_key(): as above.
SlowAssociatedEncryptedMetadataKey(R) ==
    /\ calls < MaxCalls
    /\ \E c1 \in NotBefore, rnd \in R :
        \E c2 \in Later(c1) :
        \E d \in {associated_encrypted_metadata_key(
                     _associated_enc_metadata_keys, _temporary_exposure_keys,
                     c1, c2, rnd)} :
            /\ _associated_enc_metadata_keys' = d.container
            /\ _temporary_exposure_keys' = d.teks
            /\ UNCHANGED _rolling_proximity_id_keys
            /\ issued' = issued \cup DerivIssued("aemk", d)
            /\ runs' = DerivRuns(runs, "aemk", d)
            /\ Returns("aemk", c2, d.ret, ~d.derived /\ ~d.raised)

\* rolling_proximity_identifier(): the clock is read at line 126, then at
\* line 80 and, on a miss, at line 61.
SlowRollingProximityIdentifier(R) ==
    /\ calls < MaxCalls
    /\ \E c1 \in NotBefore, rnd \in R :
        \E c2 \in Later(c1) :
        \E c3 \in Later(c2) :
        \E r \in {rolling_proximity_identifier(
                     _rolling_proximity_id_keys, _temporary_exposure_keys,
                     c1, c2, c3, rnd)} :
            /\ _rolling_proximity_id_keys' = r.key.container
            /\ _temporary_exposure_keys' = r.key.teks
            /\ UNCHANGED _associated_enc_metadata_keys
            /\ issued' = issued \cup RpiIssued(r)
            /\ runs' = DerivRuns(runs, "rpik", r.key)
            /\ Returns("rpi", c3, r.ret, ~r.key.derived /\ ~r.raised)

\* associated_encrypted_metadata(metadata): line 152 reads the clock at
\* line 80 (and 61), line 153 reads it at lines 126, 80 (and 61).  The
\* clock reads of each nested key function are taken together here.
SlowAssociatedEncryptedMetadata(R) ==
    /\ calls < MaxCalls
    /\ \E c1 \in NotBefore, rnd1 \in R, rnd2 \in R, metadata \in Metadata :
        \E c2 \in Later(c1) :
        \E c3 \in Later(c2) :
        \E r \in {associated_encrypted_metadata(
                     metadata, _associated_enc_metadata_keys,
                     _rolling_proximity_id_keys, _temporary_exposure_keys,
                     c1, c1, rnd1, c2, c3, c3, rnd2)} :
            /\ _associated_enc_metadata_keys' = r.aemk.container
            /\ _rolling_proximity_id_keys' = r.rpi.key.container
            /\ _temporary_exposure_keys' = r.rpi.key.teks
            /\ issued' = issued \cup AemIssued(metadata, r)
            /\ runs' = DerivRuns(DerivRuns(runs, "aemk", r.aemk),
                                 "rpik", r.rpi.key)
            /\ Returns("aem", c3, r.ret, ~r.aemk.derived /\ ~r.raised)

NextSlow ==
    \/ CallTemporaryExposureKey(NotBefore, Outcomes)
    \/ SlowRollingProximityIdentifierKey(Outcomes)
    \/ SlowAssociatedEncryptedMetadataKey(Outcomes)
    \/ SlowRollingProximityIdentifier(Outcomes)
    \/ SlowAssociatedEncryptedMetadata(Outcomes)
SpecSlow == Init /\ [][NextSlow]_vars

\* ------------------------------------- concurrent callers of the TEK
\* temporary_exposure_key() takes no lock: between any two of its lines
\* another caller may run.  One action per line; every caller makes one
\* call, and the clock stands still (all callers are in one key day).
Goto(th, line) == pc' = [pc EXCEPT ![th] = line]

\* Lines 61-62: read the clock.
TekReadClock(th) ==
    /\ pc[th] = "idle"
    /\ frame' = [frame EXCEPT ![th] =
                    [curr_interval_day |-> KeyDay(interval_number(now)),
                     temp_dict |-> EmptyDict]]
    /\ Goto(th, "check")
    /\ UNCHANGED <<now, utcoffset, _temporary_exposure_keys,
                   _rolling_proximity_id_keys, _associated_enc_metadata_keys,
                   op, ret, hit, prev, calls, issued, runs>>

\* Line 64: the presence check.
TekCheck(th) ==
    /\ pc[th] = "check"
    /\ IF frame[th].curr_interval_day \notin DOMAIN _temporary_exposure_keys
       THEN Goto(th, "insert")
       ELSE Goto(th, "lookup")
    /\ UNCHANGED <<now, utcoffset, _temporary_exposure_keys,
                   _rolling_proximity_id_keys, _associated_enc_metadata_keys,
                   op, ret, hit, prev, calls, issued, runs, frame>>

\* Line 65: draw the key and store it in the global dict.
TekInsert(th) ==
    /\ pc[th] = "insert"
    /\ \E rnd \in RandomKeys :
           _temporary_exposure_keys' =
               SetItem(_temporary_exposure_keys,
                       frame[th].curr_interval_day, rnd)
    /\ runs' = Ran(runs, <<"tek", frame[th].curr_interval_day>>)
    /\ Goto(th, "comprehend")
    /\ UNCHANGED <<now, utcoffset, _rolling_proximity_id_keys,
                   _associated_enc_metadata_keys,
                   op, ret, hit, prev, calls, issued, frame>>

\* Lines 66-72: build temp_dict from the global dict.
TekComprehend(th) ==
    /\ pc[th] = "comprehend"
    /\ frame' = [frame EXCEPT ![th].temp_dict =
                    Retained(_temporary_exposure_keys,
                             frame[th].curr_interval_day)]
    /\ Goto(th, "rebind")
    /\ UNCHANGED <<now, utcoffset, _temporary_exposure_keys,
                   _rolling_proximity_id_keys, _associated_enc_metadata_keys,
                   op, ret, hit, prev, calls, issued, runs>>

\* Line 73: rebind the global name to temp_dict.
TekRebind(th) ==
    /\ pc[th] = "rebind"
    /\ _temporary_exposure_keys' = frame[th].temp_dict
    /\ Goto(th, "lookup")
    /\ UNCHANGED <<now, utcoffset, _rolling_proximity_id_keys,
                   _associated_enc_metadata_keys,
                   op, ret, hit, prev, calls, issued, runs, frame>>

\* Line 75: look the key day up in the global dict and return.
KeyError == <<"KeyError">>
TekLookup(th) ==
    /\ pc[th] = "lookup"
    /\ LET day == frame[th].curr_interval_day
           value == IF day \in DOMAIN _temporary_exposure_keys
                    THEN _temporary_exposure_keys[day] ELSE KeyError
       IN  /\ ret' = value
           /\ issued' = issued \cup {<<"tek", day, value>>}
    /\ op' = "tek"
    /\ calls' = calls + 1
    /\ frame' = [frame EXCEPT ![th] = NoFrame]
    /\ Goto(th, "returned")
    /\ UNCHANGED <<now, utcoffset, _temporary_exposure_keys,
                   _rolling_proximity_id_keys, _associated_enc_metadata_keys,
                   hit, prev, runs>>

NextConc ==
    \E th \in Threads :
        \/ TekReadClock(th)
        \/ TekCheck(th)
        \/ TekInsert(th)
        \/ TekComprehend(th)
        \/ TekRebind(th)
        \/ TekLookup(th)
SpecConc == Init /\ [][NextConc]_vars

\* =============================================================== claims
\* The values function `fn` has returned at key day (or interval) d.
Issued(fn, d) == {e[3] : e \in {x \in issued : x[1] = fn /\ x[2] = d}}
OnlyTekCalls == \A e \in issued : e[1] = "tek"
AesKey(identifier) == identifier[2]
AesBlock(identifier) == identifier[3]

\* C1: under a non-decreasing clock, all calls of temporary_exposure_key()
\* in one key day return the same value: at most one key is ever drawn for
\* a key day, and while the clock is in a key day for which a TEK was
\* returned the cache holds exactly that TEK.
C1_SameDaySameTek ==
    \A d \in Days :
        /\ Cardinality(Issued("tek", d)) <= 1
        /\ Count(<<"tek", d>>) <= 1
        /\ (d = Today /\ Issued("tek", d) # {}) =>
               /\ d \in DOMAIN _temporary_exposure_keys
               /\ Issued("tek", d) = {_temporary_exposure_keys[d]}

\* C1 witness: a call of temporary_exposure_key() found the key day cached
\* and returned the cached key.
C1_Witness ==
    /\ op = "tek" /\ hit
    /\ Count(<<"tek", Today>>) = 1
    /\ ret = _temporary_exposure_keys[Today]

\* C2: under a non-decreasing clock, all calls of
\* rolling_proximity_identifier_key() in one key day return the same value,
\* likewise all calls of associated_encrypted_metadata_key(), and the
\* derivation runs at most once per key day per cache.
C2_SameDaySameDerivedKey ==
    \A d \in Days : \A fn \in {"rpik", "aemk"} :
        /\ Cardinality(Issued(fn, d)) <= 1
        /\ Count(<<fn, d>>) <= 1

\* C2 witness: a call of rolling_proximity_identifier_key() was served from
\* the cache after one derivation for that key day.
C2_Witness ==
    /\ op = "rpik" /\ hit
    /\ Count(<<"rpik", Today>>) = 1
    /\ ret = _rolling_proximity_id_keys[Today]

\* C3 (as claimed): when rolling_proximity_identifier_key() (resp.
\* associated_encrypted_metadata_key()) has returned at key day c, the
\* returned key is the KDF with label "EN-RPIK" (resp. "EN-AEMK") of the TEK
\* that temporary_exposure_key() returns at key day c, whatever os.urandom
\* yields should that call have to draw a key.
C3_DerivedFromTekOfTheDay ==
    \A rnd \in RandomKeys :
        LET tek == temporary_exposure_key(_temporary_exposure_keys, now, rnd)
        IN  /\ op = "rpik" =>
                   ret = hkdf_derive(tek.ret, <<>>, BYTES_RPIK_INFO, 16)
            /\ op = "aemk" =>
                   ret = hkdf_derive(tek.ret, <<>>, BYTES_AEMK_INFO, 16)

\* C4: under a non-decreasing clock, after a call of temporary_exposure_key()
\* at key day c, a TEK inserted at key day d with d <= c <= d + 14 is still
\* cached with the value it was inserted with, and a TEK inserted at a key
\* day d with c >= d + 15 is no longer cached.
C4_TekRetention ==
    op = "tek" =>
        \A d \in Days :
            Count(<<"tek", d>>) > 0 =>
                /\ (d <= Today /\ Today <= d + TEK_LIFETIME) =>
                       /\ d \in DOMAIN _temporary_exposure_keys
                       /\ Issued("tek", d) = {_temporary_exposure_keys[d]}
                /\ Today >= d + TEK_LIFETIME + 1 =>
                       d \notin DOMAIN _temporary_exposure_keys

\* C4 witness: after a call of temporary_exposure_key() a TEK inserted more
\* than 14 key days ago is gone and a younger one from an earlier key day
\* is still cached.
C4_Witness ==
    /\ op = "tek"
    /\ \E d, e \in Days :
           /\ Count(<<"tek", d>>) > 0
           /\ Today >= d + TEK_LIFETIME + 1
           /\ d \notin DOMAIN _temporary_exposure_keys
           /\ e < Today
           /\ e \in DOMAIN _temporary_exposure_keys

\* C5 (as claimed): under a non-decreasing clock, after a call of
\* rolling_proximity_identifier_key() (resp.
\* associated_encrypted_metadata_key()) at key day c the RPIK cache (resp.
\* AEMK cache) holds no key day k with c - k > 14.
C5_DerivedKeysEvicted ==
    /\ op = "rpik" =>
           \A k \in DOMAIN _rolling_proximity_id_keys :
               Today - k <= TEK_LIFETIME
    /\ op = "aemk" =>
           \A k \in DOMAIN _associated_enc_metadata_keys :
               Today - k <= TEK_LIFETIME

\* C6 (as claimed): after any sequence of calls of temporary_exposure_key()
\* at arbitrary clock readings, the last at key day c, the TEK cache holds
\* no key day k with c - k > 14.
C6_NoOldTekAfterAnyCall ==
    (op = "tek" /\ OnlyTekCalls) =>
        \A k \in DOMAIN _temporary_exposure_keys : Today - k <= TEK_LIFETIME

\* C7 (as claimed): callers that run temporary_exposure_key() concurrently
\* in one key day all return the same TEK.
C7_ConcurrentCallersAgree ==
    \A a, b \in issued :
        (a[1] = "tek" /\ b[1] = "tek" /\ a[2] = b[2]) => a[3] = b[3]

\* C8: a call of temporary_exposure_key() after the clock went back to an
\* earlier key day that is still cached returns the cached TEK, draws no
\* key and leaves the TEK cache as it was.
C8_RegressedDayReused ==
    [][(/\ op' = "tek"
        /\ calls' = calls + 1
        /\ KeyDay(interval_number(now')) < Today
        /\ KeyDay(interval_number(now')) \in DOMAIN _temporary_exposure_keys)
       => (/\ ret' = _temporary_exposure_keys[KeyDay(interval_number(now'))]
           /\ _temporary_exposure_keys' = _temporary_exposure_keys
           /\ runs' = runs
           /\ hit')]_vars

\* C8 witness: temporary_exposure_key() was served from the cache at a key
\* day earlier than the key day of the call before it.
C8_Witness ==
    /\ op = "tek" /\ hit
    /\ Today < KeyDay(interval_number(prev))
    /\ ret = _temporary_exposure_keys[Today]

C10_IdentifierRolls ==
    \A a, b \in issued :
        (/\ a[1] = "rpi" /\ b[1] = "rpi"
         /\ a[2] # b[2]
         /\ KeyDay(a[2]) = KeyDay(b[2]))
        => /\ a[3] # b[3]
           /\ AesBlock(a[3]) # AesBlock(b[3])
           /\ AesKey(a[3]) = AesKey(b[3])
           /\ Issued("rpik", KeyDay(a[2])) = {AesKey(a[3])}

\* C10 witness: identifiers were returned at two intervals of one key day.
C10_Witness ==
    \E a, b \in issued :
        /\ a[1] = "rpi" /\ b[1] = "rpi"
        /\ a[2] # b[2]
        /\ KeyDay(a[2]) = KeyDay(b[2])

\* C11 (as claimed): interval_number() returns floor(E / 600) for the epoch
\* second E of the call, whatever the UTC offset of the host.
C11_IntervalOfEpoch ==
    op = "interval" => ret = now \div SECONDS_PER_INTERVAL

\* C12: when os.urandom raises while a TEK is minted, directly or beneath
\* a derived-key, identifier or metadata call, the caller gets the exception
\* and no key, and all three caches are as they were before the call.
C12_FailedStepKeepsCaches ==
    (calls' = calls + 1 /\ ret' = OSError)
    => UNCHANGED <<_temporary_exposure_keys, _rolling_proximity_id_keys,
                   _associated_enc_metadata_keys>>
C12_UrandomFailure == [][C12_FailedStepKeepsCaches]_vars

\* C13: associated_encrypted_metadata(m) returns exactly len(m) bytes, for
\* metadata of 0, 1, 16 and 257 bytes: nothing is padded, nothing appended.
C13_CiphertextLength ==
    \A e \in issued :
        e[1] = "aem" => ByteLength(e[3]) = Len(e[2])

\* C13 witness: empty metadata, one byte and 257 bytes have been encrypted.
C13_Witness ==
    \A n \in {0, 1, 257} :
        \E e \in issued : e[1] = "aem" /\ Len(e[2]) = n

\* C14: the block encrypted for interval number n is 16 bytes long: the
\* six bytes of "EN-RPI", six zero bytes, then n in four bytes, least
\* significant first (byte k is floor(n / 256^k) mod 256); the identifier
\* returned is 16 bytes long.
C14_PaddedBlock ==
    \A e \in issued :
        e[1] = "rpi" =>
            LET n == e[2]
                block == AesBlock(e[3])
            IN  /\ Len(block) = 16
                /\ SubSeq(block, 1, 6) = <<69, 78, 45, 82, 80, 73>>
                /\ SubSeq(block, 7, 12) = <<0, 0, 0, 0, 0, 0>>
                /\ \A k \in 0 .. 3 : block[13 + k] = (n \div (256 ^ k)) % 256
                /\ ByteLength(e[3]) = 16

\* C14 witness: an interval number with four different non-zero bytes and
\* the largest sampled one have been packed and encrypted.
C14_Witness ==
    /\ \E e \in issued : e[1] = "rpi" /\ e[2] = 16909060
    /\ \E e \in issued : e[1] = "rpi" /\ e[2] = 2147483647

\* C15 (as claimed): under a non-decreasing clock that may advance between
\* the clock reads of one call, every entry of the RPIK or AEMK cache under
\* key day d is the KDF output of the TEK that the TEK cache holds under d.
C15_EntryFromTekOfItsDay ==
    \A d \in DOMAIN _temporary_exposure_keys :
        /\ d \in DOMAIN _rolling_proximity_id_keys =>
               _rolling_proximity_id_keys[d] =
                   hkdf_derive(_temporary_exposure_keys[d], <<>>,
                               BYTES_RPIK_INFO, 16)
        /\ d \in DOMAIN _associated_enc_metadata_keys =>
               _associated_enc_metadata_keys[d] =
                   hkdf_derive(_temporary_exposure_keys[d], <<>>,
                               BYTES_AEMK_INFO, 16)

\* The interval number that the last four bytes of an identifier's block
\* encode, least significant byte first.
IntervalOf(identifier) ==
    LET block == AesBlock(identifier)
    IN  block[13] + 256 * block[14] + 65536 * block[15] + 16777216 * block[16]

\* C16 (as claimed): the identifier that rolling_proximity_identifier()
\* returns encodes an interval i under the RPIK of key day floor(i / 144),
\* also when the clock crosses a key-day boundary during the call.
C16_KeyOfTheIntervalsDay ==
    (op = "rpi" /\ ret[1] = "aes_ecb")
    => /\ KeyDay(IntervalOf(ret)) \in DOMAIN _rolling_proximity_id_keys
       /\ AesKey(ret) = _rolling_proximity_id_keys[KeyDay(IntervalOf(ret))]

\* C17 (as claimed): associated_encrypted_metadata(m) starts the counter at
\* the big-endian integer of the identifier computed in the call, under
\* the AEMK of that identifier's key day, also when the clock crosses a
\* key-day boundary between the AEMK lookup and the identifier.
C17_CounterAndKeyOfOneDay ==
    (op = "aem" /\ ret[1] = "aes_ctr")
    => LET curr_aemk == ret[2]
           initial_value == ret[3]
           curr_rpi == initial_value[2]
           day == KeyDay(IntervalOf(curr_rpi))
       IN  /\ initial_value = <<"int_be", curr_rpi>>
           /\ <<"rpi", IntervalOf(curr_rpi), curr_rpi>> \in issued
           /\ day \in DOMAIN _associated_enc_metadata_keys
           /\ curr_aemk = _associated_enc_metadata_keys[day]

\* The entries that dict `after` kept from dict `before` have their values.
RetainedUnchanged(before, after) ==
    \A k \in DOMAIN before \cap DOMAIN after : after[k] = before[k]

\* C18: a sequential call of temporary_exposure_key(),
\* rolling_proximity_identifier_key() or associated_encrypted_metadata_key()
\* at a key day that its cache already holds leaves all three caches as they
\* are; a call that inserts a key day changes the value of no entry that is
\* kept, and touches no cache but its own and (for the two derived-key
\* functions) the TEK cache.
C18_CallFrame ==
    (calls' = calls + 1 /\ op' \in {"tek", "rpik", "aemk"})
    => LET day == KeyDay(interval_number(now'))
           own == CASE op' = "tek" -> _temporary_exposure_keys
                    [] op' = "rpik" -> _rolling_proximity_id_keys
                    [] op' = "aemk" -> _associated_enc_metadata_keys
       IN  /\ day \in DOMAIN own =>
                  UNCHANGED <<_temporary_exposure_keys,
                              _rolling_proximity_id_keys,
                              _associated_enc_metadata_keys>>
           /\ RetainedUnchanged(_temporary_exposure_keys,
                                _temporary_exposure_keys')
           /\ RetainedUnchanged(_rolling_proximity_id_keys,
                                _rolling_proximity_id_keys')
           /\ RetainedUnchanged(_associated_enc_metadata_keys,
                                _associated_enc_metadata_keys')
           /\ op' # "rpik" => UNCHANGED _rolling_proximity_id_keys
           /\ op' # "aemk" => UNCHANGED _associated_enc_metadata_keys
C18_FrameOfKeyCalls == [][C18_CallFrame]_vars

\* C18 witness: rolling_proximity_identifier_key() has just inserted a key
\* day next to an entry it kept, with the two other caches filled.
C18_Witness ==
    /\ op = "rpik" /\ ~hit
    /\ Cardinality(DOMAIN _rolling_proximity_id_keys) >= 2
    /\ DOMAIN _associated_enc_metadata_keys # {}
    /\ DOMAIN _temporary_exposure_keys # {}

====
